---- MODULE Spec2Model ----
(***************************************************************************)
(* The verification harness scripts of rogue-triangulum:                   *)
(*   verification/verify_chart_optimization.py   verify(), __main__        *)
(*   verification/take_screenshot.py             verify(), __main__        *)
(*   verification/verify_chart.py                verify_chart(), __main__  *)
(*   verification_script.py                      run()                     *)
(* One run of one script is one behaviour.  The harness is sequential; the *)
(* target server process and the page's console are the environment.       *)
(***************************************************************************)
EXTENDS Integers, Sequences, FiniteSets, TLC

\* ------------------------------------------------------------------ bounds
\* most console messages the page emits in one run
MaxLog == 3

\* --------------------------------------------------------------- constants
\* max_retries of the readiness probe
max_retries == 60
\* iterations of the initial marker poll: range(30)
poll_iterations == 30

VCO == "verify_chart_optimization"
TS == "take_screenshot"
VC == "verify_chart"
VS == "verification_script"

Scripts == {VCO, TS, VC, VS}

\* the scripts that start and stop the target server themselves
Managed == {VCO, TS}

\* A console message text is a sequence of tokens, so that Python's substring
\* test and its equality test are different operations on it.
CHART_CREATED == <<"CHART_CREATED">>
DATA_UPDATED == <<"DATA_UPDATED">>

\* what msg.text can be: the bare markers, and a marker inside a longer line
ConsoleTexts == {CHART_CREATED, DATA_UPDATED, <<"[chart]", "CHART_CREATED">>}

\* Python: marker in text  (substring test on str)
Contains(marker, text) ==
    \E k \in 0..(Len(text) - Len(marker)) :
        SubSeq(text, k + 1, k + Len(marker)) = marker

\* Python: any(marker in log for log in logs)
AnyContains(marker, log) == \E k \in 1..Len(log) : Contains(marker, log[k])

\* Python: logs.count(marker)  (equality test on the list's elements)
Count(log, marker) == Cardinality({k \in 1..Len(log) : log[k] = marker})

\* the screenshot path each script writes on its main path
ScreenshotPath(s) ==
    CASE s = VCO -> "verification/chart.png"
      [] s = TS -> "verification/verification.png"
      [] s = VC -> "verification/chart_verification.png"
      [] OTHER -> "/home/jules/verification/swing_chart.png"

\* verify_chart.py's screenshot path in its except block
ErrorScreenshotPath == "verification/error_screenshot.png"

NoResult == [kind |-> "none"]

VARIABLES
    script,             \* which script this run executes
    pc,                 \* position of the script
    server,             \* TargetProcess: NONE, STARTING, READY, EXITED, TERMINATED
    signalled,          \* os.killpg delivered signal 15 to the server's group
    stopCalls,          \* times the finally block ran
    i,                  \* the probe loop's index
    probe,              \* ReadinessCheck outcome: pending, READY, TIMED_OUT
    playwright,         \* the sync_playwright() context: none, running, stopped
    browser,            \* BrowserSession: NONE, OPEN, CLOSED
    closeCalls,         \* times browser.close() was called
    consoleListener,    \* page.on("console", ...) installed
    pageErrorListener,  \* page.on("pageerror", ...) installed
    navIssued,          \* page.goto has been called
    navOk,              \* page.goto returned without raising
    logs,               \* the list the console callback appends to
    missed,             \* the page emitted a console message nobody listened to
    polls,              \* the initial poll loop's iteration
    pollHit,            \* the initial poll loop left by break
    initial_creations,  \* local of verify()
    total_creations,    \* local of verify()
    data_updates,       \* local of verify()
    baselineLen,        \* Len(logs) when initial_creations was taken, -1 before
    totalLen,           \* Len(logs) when total_creations was taken, -1 before
    click,              \* none, invoked, ok, failed
    captures,           \* the page.screenshot calls so far: <<[path, ok], ...>>
    ret,                \* what the script returned or reported
    exc                 \* the exception that left the script, "none" if none

serverVars == <<server, signalled, stopCalls>>
probeVars == <<i, probe>>
sessionVars == <<playwright, closeCalls, consoleListener, pageErrorListener>>
navVars == <<navIssued, navOk>>
logVars == <<logs, missed>>
pollVars == <<polls, pollHit>>
countVars == <<initial_creations, total_creations, data_updates, baselineLen,
              totalLen>>

vars == <<script, pc, serverVars, probeVars, browser, sessionVars, navVars,
          logVars, pollVars, countVars, click, captures, ret, exc>>

Init ==
    /\ script \in Scripts
    /\ pc = IF script \in Managed THEN "start" ELSE "launch"
    /\ server = "NONE"
    /\ signalled = FALSE
    /\ stopCalls = 0
    /\ i = 0
    /\ probe = "pending"
    /\ playwright = "none"
    /\ browser = "NONE"
    /\ closeCalls = 0
    /\ consoleListener = FALSE
    /\ pageErrorListener = FALSE
    /\ navIssued = FALSE
    /\ navOk = FALSE
    /\ logs = <<>>
    /\ missed = FALSE
    /\ polls = 0
    /\ pollHit = FALSE
    /\ initial_creations = 0
    /\ total_creations = 0
    /\ data_updates = 0
    /\ baselineLen = -1
    /\ totalLen = -1
    /\ click = "none"
    /\ captures = <<>>
    /\ ret = NoResult
    /\ exc = "none"

\* ------------------------------------------------------- the target server
\* subprocess.Popen(["npm", "start"], ..., preexec_fn=os.setsid), then try:
StartServer ==
    /\ pc = "start"
    /\ server' = "STARTING"
    /\ pc' = "probe"
    /\ UNCHANGED <<script, signalled, stopCalls, probeVars, browser, sessionVars,
                   navVars, logVars, pollVars, countVars, click, captures, ret, exc>>

\* environment: the server binds port 3000
ServerListen ==
    /\ server = "STARTING"
    /\ ~signalled
    /\ server' = "READY"
    /\ UNCHANGED <<script, pc, signalled, stopCalls, probeVars, browser,
                   sessionVars, navVars, logVars, pollVars, countVars, click,
                   captures, ret, exc>>

\* environment: the server process exits, by itself or on signal 15; its
\* pipes reach end of file and it stays a zombie until it is waited for
ServerExit ==
    /\ server \in {"STARTING", "READY"}
    /\ server' = "EXITED"
    /\ UNCHANGED <<script, pc, signalled, stopCalls, probeVars, browser,
                   sessionVars, navVars, logVars, pollVars, countVars, click,
                   captures, ret, exc>>

\* ------------------------------------------------------ the readiness probe
\* s.connect_ex(('localhost', 3000)) == 0: print("Server is ready!"); break
\* (i is not read after the loop: the model forgets it there)
ProbeConnect ==
    /\ pc = "probe"
    /\ server = "READY"
    /\ probe' = "READY"
    /\ pc' = "launch"
    /\ i' = 0
    /\ UNCHANGED <<script, serverVars, browser, sessionVars, navVars, logVars,
                   pollVars, countVars, click, captures, ret, exc>>

\* where a probe that used its last attempt goes: verify_chart_optimization
\* reads the server's stderr and raises, take_screenshot falls out of the loop
AfterExhaustion(s) == IF s = VCO THEN "read_stderr" ELSE "launch"

\* the connection attempt failed, as it does when nothing listens and as it
\* can within the 1 s timeout when something does: time.sleep(2), then the
\* next iteration or, after the last one, the end of the loop
ProbeRetry ==
    /\ pc = "probe"
    /\ IF i = max_retries - 1
         THEN /\ probe' = "TIMED_OUT"
              /\ pc' = AfterExhaustion(script)
              /\ i' = 0
         ELSE /\ i' = i + 1
              /\ UNCHANGED <<probe, pc>>
    /\ UNCHANGED <<script, serverVars, browser, sessionVars, navVars, logVars,
                   pollVars, countVars, click, captures, ret, exc>>

\* print(server.stderr.read().decode('utf-8')): read() returns at end of file,
\* which the pipe reaches when the server has exited; then
\* raise Exception("Server failed to start")
ReadStderr ==
    /\ pc = "read_stderr"
    /\ server = "EXITED"
    /\ exc' = "Server failed to start"
    /\ pc' = "teardown"
    /\ UNCHANGED <<script, serverVars, probeVars, browser, sessionVars, navVars,
                   logVars, pollVars, countVars, click, captures, ret>>

\* Raise as it would be with the server stopped after the try block instead
\* of in a finally block: an exception leaves verify() without stopping it
RaiseSkippingFinally(e) ==
    /\ playwright' = IF script = VC THEN playwright ELSE "stopped"
    /\ exc' = IF script = VC THEN exc ELSE e
    /\ ret' = IF script = VC
                THEN [kind |-> "print", value |-> "Verification failed"]
                ELSE ret
    /\ pc' = IF script = VC THEN "error_screenshot" ELSE "done"

\* ------------------------------------------------- leaving the with block
\* An exception raised inside the with sync_playwright() block.  In the
\* managed scripts it passes through the finally block; verify_chart.py
\* catches it (except Exception: print("Verification failed: ...")) and goes
\* on to the error screenshot; verification_script.py lets it out of run().
Raise(e) ==
    /\ playwright' = IF script = VC THEN playwright ELSE "stopped"
    /\ exc' = IF script = VC THEN exc ELSE e
    /\ ret' = IF script = VC
                THEN [kind |-> "print", value |-> "Verification failed"]
                ELSE ret
    /\ pc' = CASE script \in Managed -> "teardown"
               [] script = VC -> "error_screenshot"
               [] OTHER -> "done"

\* Return as it would be with the browser started outside a with block
\* (sync_playwright().start()): returning does not stop Playwright
ReturnLeavingPlaywright(v) ==
    /\ playwright' = playwright
    /\ ret' = v
    /\ exc' = exc
    /\ pc' = "teardown"

\* return v inside the with block inside the try block of verify()
Return(v) ==
    /\ playwright' = "stopped"
    /\ ret' = v
    /\ exc' = exc
    /\ pc' = "teardown"

\* AfterLaunch as it would be with page.goto placed before the page.on calls
AfterLaunchNoSubscribe(s) == "goto"

\* ------------------------------------------------------ the browser session
\* with sync_playwright() as p: browser = p.chromium.launch();
\* page = browser.new_page().  verify_chart.py launches before its try block,
\* so there a failed launch leaves the script at once.
AfterLaunch(s) == IF s = VCO THEN "subscribe" ELSE "goto"

LaunchBrowser ==
    /\ pc = "launch"
    /\ \E ok \in BOOLEAN :
         IF ok
           THEN /\ browser' = "OPEN"
                /\ playwright' = "running"
                /\ pc' = AfterLaunch(script)
                /\ UNCHANGED <<ret, exc>>
           ELSE /\ browser' = browser
                /\ playwright' = "stopped"
                /\ exc' = "launch failed"
                /\ ret' = ret
                /\ pc' = IF script \in Managed THEN "teardown" ELSE "done"
    /\ UNCHANGED <<script, serverVars, probeVars, closeCalls, consoleListener,
                   pageErrorListener, navVars, logVars, pollVars, countVars,
                   click, captures>>

\* logs = []; page.on("console", lambda msg: logs.append(msg.text));
\* page.on("pageerror", ...)
Subscribe ==
    /\ pc = "subscribe"
    /\ logs' = <<>>
    /\ consoleListener' = TRUE
    /\ pageErrorListener' = TRUE
    /\ pc' = "goto"
    /\ UNCHANGED <<script, serverVars, probeVars, browser, playwright, closeCalls,
                   navVars, missed, pollVars, countVars, click, captures, ret, exc>>

\* page.goto(...) is called
Goto ==
    /\ pc = "goto"
    /\ navIssued' = TRUE
    /\ pc' = "navigating"
    /\ UNCHANGED <<script, serverVars, probeVars, browser, sessionVars, navOk,
                   logVars, pollVars, countVars, click, captures, ret, exc>>

AfterNavigation(s) ==
    CASE s = VCO -> "wait_initial"
      [] s = TS -> "wait_load"
      [] OTHER -> "wait_selector"

\* page.goto(...) returns, or raises; it can only load a page from a server
\* that is listening (the unmanaged scripts use a server they did not start)
NavigationReturns ==
    /\ pc = "navigating"
    /\ \E ok \in BOOLEAN :
         /\ ok => (server = "READY" \/ script \notin Managed)
         /\ IF ok
              THEN /\ navOk' = TRUE
                   /\ pc' = AfterNavigation(script)
                   /\ UNCHANGED <<playwright, ret, exc>>
              ELSE /\ navOk' = FALSE
                   /\ Raise("navigation failed")
    /\ UNCHANGED <<script, serverVars, probeVars, browser, closeCalls,
                   consoleListener, pageErrorListener, navIssued, logVars,
                   pollVars, countVars, click, captures>>

\* the positions at which the script is inside a Playwright call, which is
\* when Playwright's sync API runs the page's event callbacks
Dispatching ==
    {"navigating", "wait_initial", "settle", "clicking", "wait_post",
     "wait_load", "wait_selector", "wait_selector2", "screenshot"}

\* PageConsole as it would be with the callback written
\* lambda msg: logs.insert(0, msg.text)
PageConsolePrepending ==
    /\ navIssued
    /\ browser = "OPEN"
    /\ playwright = "running"
    /\ pc \in Dispatching
    /\ \E text \in ConsoleTexts :
         IF consoleListener
           THEN /\ Len(logs) < MaxLog
                /\ logs' = <<text>> \o logs
                /\ missed' = missed
           ELSE /\ ~missed
                /\ missed' = TRUE
                /\ logs' = logs
    /\ UNCHANGED <<script, pc, serverVars, probeVars, browser, sessionVars,
                   navVars, pollVars, countVars, click, captures, ret, exc>>

\* environment: the page writes a console message; the console listener,
\* when installed, runs logs.append(msg.text)
PageConsole ==
    /\ navIssued
    /\ browser = "OPEN"
    /\ playwright = "running"
    /\ pc \in Dispatching
    /\ \E text \in ConsoleTexts :
         IF consoleListener
           THEN /\ Len(logs) < MaxLog
                /\ logs' = Append(logs, text)
                /\ missed' = missed
           ELSE /\ ~missed
                /\ missed' = TRUE
                /\ logs' = logs
    /\ UNCHANGED <<script, pc, serverVars, probeVars, browser, sessionVars,
                   navVars, pollVars, countVars, click, captures, ret, exc>>

\* -------------------------------------- verify_chart_optimization.verify()
\* for _ in range(30): if any("CHART_CREATED" in log for log in logs): break;
\* page.wait_for_timeout(500)
\* (the iteration count is not read after the loop: the model forgets it there)
PollInitial ==
    /\ pc = "wait_initial"
    /\ IF AnyContains(CHART_CREATED, logs)
         THEN /\ pollHit' = TRUE
              /\ polls' = 0
              /\ pc' = "settle"
         ELSE /\ pollHit' = FALSE
              /\ polls' = IF polls = poll_iterations - 1 THEN 0 ELSE polls + 1
              /\ pc' = IF polls = poll_iterations - 1 THEN "settle" ELSE pc
    /\ UNCHANGED <<script, serverVars, probeVars, browser, sessionVars, navVars,
                   logVars, countVars, click, captures, ret, exc>>

\* page.wait_for_timeout(2000)
Settle ==
    /\ pc = "settle"
    /\ pc' = "count_initial"
    /\ UNCHANGED <<script, serverVars, probeVars, browser, sessionVars, navVars,
                   logVars, pollVars, countVars, click, captures, ret, exc>>

\* CountInitial as it would be without the initial_creations == 0 check
CountInitialNoCheck ==
    /\ pc = "count_initial"
    /\ initial_creations' = Count(logs, CHART_CREATED)
    /\ baselineLen' = Len(logs)
    /\ pc' = "click"
    /\ UNCHANGED <<playwright, ret, exc>>
    /\ UNCHANGED <<script, serverVars, probeVars, browser, closeCalls,
                   consoleListener, pageErrorListener, navVars, logVars,
                   pollVars, total_creations, data_updates, totalLen, click,
                   captures>>

\* initial_creations = logs.count("CHART_CREATED");
\* if initial_creations == 0: ... return False
CountInitial ==
    /\ pc = "count_initial"
    /\ initial_creations' = Count(logs, CHART_CREATED)
    /\ baselineLen' = Len(logs)
    /\ IF Count(logs, CHART_CREATED) = 0
         THEN Return([kind |-> "False"])
         ELSE /\ pc' = "click"
              /\ UNCHANGED <<playwright, ret, exc>>
    /\ UNCHANGED <<script, serverVars, probeVars, browser, closeCalls,
                   consoleListener, pageErrorListener, navVars, logVars,
                   pollVars, total_creations, data_updates, totalLen, click,
                   captures>>

\* page.get_by_role("button", name="15m").click() is called
ClickInvoke ==
    /\ pc = "click"
    /\ click' = "invoked"
    /\ pc' = "clicking"
    /\ UNCHANGED <<script, serverVars, probeVars, browser, sessionVars, navVars,
                   logVars, pollVars, countVars, captures, ret, exc>>

\* ClickReturns as it would be with the except block only printing, without
\* its return False
ClickReturnsContinuing ==
    /\ pc = "clicking"
    /\ \E ok \in BOOLEAN :
         /\ click' = IF ok THEN "ok" ELSE "failed"
         /\ pc' = "wait_post"
         /\ UNCHANGED <<playwright, ret, exc>>
    /\ UNCHANGED <<script, serverVars, probeVars, browser, closeCalls,
                   consoleListener, pageErrorListener, navVars, logVars,
                   pollVars, countVars, captures>>

\* the click returns, or raises: except Exception: ... return False
ClickReturns ==
    /\ pc = "clicking"
    /\ \E ok \in BOOLEAN :
         IF ok
           THEN /\ click' = "ok"
                /\ pc' = "wait_post"
                /\ UNCHANGED <<playwright, ret, exc>>
           ELSE /\ click' = "failed"
                /\ Return([kind |-> "False"])
    /\ UNCHANGED <<script, serverVars, probeVars, browser, closeCalls,
                   consoleListener, pageErrorListener, navVars, logVars,
                   pollVars, countVars, captures>>

\* page.wait_for_timeout(3000)
WaitPost ==
    /\ pc = "wait_post"
    /\ pc' = "count_total"
    /\ UNCHANGED <<script, serverVars, probeVars, browser, sessionVars, navVars,
                   logVars, pollVars, countVars, click, captures, ret, exc>>

\* total_creations = logs.count("CHART_CREATED");
\* data_updates = logs.count("DATA_UPDATED")
CountTotal ==
    /\ pc = "count_total"
    /\ total_creations' = Count(logs, CHART_CREATED)
    /\ data_updates' = Count(logs, DATA_UPDATED)
    /\ totalLen' = Len(logs)
    /\ pc' = "screenshot"
    /\ UNCHANGED <<script, serverVars, probeVars, browser, sessionVars, navVars,
                   logVars, pollVars, initial_creations, baselineLen, click,
                   captures, ret, exc>>

\* the dictionary verify() returns
Result(initial, total, updates) ==
    [initial |-> initial, total |-> total, updates |-> updates]

\* page.screenshot(path="verification/chart.png"); return {...}
\* A screenshot that raises leaves verify() as that exception.
ScreenshotVCO ==
    /\ pc = "screenshot"
    /\ script = VCO
    /\ \E ok \in BOOLEAN :
         /\ captures' = Append(captures, [path |-> ScreenshotPath(script), ok |-> ok])
         /\ IF ok
              THEN Return([kind |-> "dict",
                           value |-> Result(initial_creations, total_creations,
                                            data_updates)])
              ELSE Raise("screenshot failed")
    /\ UNCHANGED <<script, serverVars, probeVars, browser, closeCalls,
                   consoleListener, pageErrorListener, navVars, logVars,
                   pollVars, countVars, click>>

\* ------------------------------------------------ take_screenshot.verify()
\* page.wait_for_timeout(5000) in take_screenshot.py,
\* page.wait_for_timeout(3000) in verification_script.py
WaitLoad ==
    /\ pc = "wait_load"
    /\ pc' = IF script = TS THEN "screenshot" ELSE "makedirs"
    /\ UNCHANGED <<script, serverVars, probeVars, browser, sessionVars, navVars,
                   logVars, pollVars, countVars, click, captures, ret, exc>>

\* page.screenshot(path=path); return path
ScreenshotTS ==
    /\ pc = "screenshot"
    /\ script = TS
    /\ \E ok \in BOOLEAN :
         /\ captures' = Append(captures, [path |-> ScreenshotPath(script), ok |-> ok])
         /\ IF ok
              THEN Return([kind |-> "path", value |-> ScreenshotPath(script)])
              ELSE Raise("screenshot failed")
    /\ UNCHANGED <<script, serverVars, probeVars, browser, closeCalls,
                   consoleListener, pageErrorListener, navVars, logVars,
                   pollVars, countVars, click>>

\* ------------------------------------- verify_chart.py, verification_script.py
\* page.wait_for_selector(..., timeout=10000): "canvas" in verify_chart.py,
\* "text=Swing Trading" in verification_script.py
WaitSelector ==
    /\ pc = "wait_selector"
    /\ \E ok \in BOOLEAN :
         IF ok
           THEN /\ pc' = IF script = VC THEN "sleep" ELSE "wait_selector2"
                /\ UNCHANGED <<playwright, ret, exc>>
           ELSE Raise("selector timeout")
    /\ UNCHANGED <<script, serverVars, probeVars, browser, closeCalls,
                   consoleListener, pageErrorListener, navVars, logVars,
                   pollVars, countVars, click, captures>>

\* page.wait_for_selector("text=MSFT", timeout=10000)
WaitSelector2 ==
    /\ pc = "wait_selector2"
    /\ \E ok \in BOOLEAN :
         IF ok
           THEN /\ pc' = "wait_load"
                /\ UNCHANGED <<playwright, ret, exc>>
           ELSE Raise("selector timeout")
    /\ UNCHANGED <<script, serverVars, probeVars, browser, closeCalls,
                   consoleListener, pageErrorListener, navVars, logVars,
                   pollVars, countVars, click, captures>>

\* time.sleep(3)
Sleep ==
    /\ pc = "sleep"
    /\ pc' = "screenshot"
    /\ UNCHANGED <<script, serverVars, probeVars, browser, sessionVars, navVars,
                   logVars, pollVars, countVars, click, captures, ret, exc>>

\* page.screenshot(path="verification/chart_verification.png"), back in
\* __main__: print("Verification successful"); a screenshot that raises is
\* caught by except Exception like any other failure of verify_chart()
ScreenshotVC ==
    /\ pc = "screenshot"
    /\ script = VC
    /\ \E ok \in BOOLEAN :
         /\ captures' = Append(captures, [path |-> ScreenshotPath(script), ok |-> ok])
         /\ IF ok
              THEN /\ ret' = [kind |-> "print", value |-> "Verification successful"]
                   /\ pc' = "close"
                   /\ UNCHANGED <<playwright, exc>>
              ELSE Raise("screenshot failed")
    /\ UNCHANGED <<script, serverVars, probeVars, browser, closeCalls,
                   consoleListener, pageErrorListener, navVars, logVars,
                   pollVars, countVars, click>>

\* try: page.screenshot(path="verification/error_screenshot.png")
\* except: pass
ErrorScreenshot ==
    /\ pc = "error_screenshot"
    /\ \E ok \in BOOLEAN :
         captures' = Append(captures, [path |-> ErrorScreenshotPath, ok |-> ok])
    /\ pc' = "close"
    /\ UNCHANGED <<script, serverVars, probeVars, browser, sessionVars, navVars,
                   logVars, pollVars, countVars, click, ret, exc>>

\* os.makedirs("/home/jules/verification", exist_ok=True)
MakeDirs ==
    /\ pc = "makedirs"
    /\ \E ok \in BOOLEAN :
         IF ok
           THEN /\ pc' = "screenshot"
                /\ UNCHANGED <<playwright, ret, exc>>
           ELSE Raise("makedirs failed")
    /\ UNCHANGED <<script, serverVars, probeVars, browser, closeCalls,
                   consoleListener, pageErrorListener, navVars, logVars,
                   pollVars, countVars, click, captures>>

\* page.screenshot(path=screenshot_path); print(...)
ScreenshotVS ==
    /\ pc = "screenshot"
    /\ script = VS
    /\ \E ok \in BOOLEAN :
         /\ captures' = Append(captures, [path |-> ScreenshotPath(script), ok |-> ok])
         /\ IF ok
              THEN /\ pc' = "close"
                   /\ UNCHANGED <<playwright, ret, exc>>
              ELSE Raise("screenshot failed")
    /\ UNCHANGED <<script, serverVars, probeVars, browser, closeCalls,
                   consoleListener, pageErrorListener, navVars, logVars,
                   pollVars, countVars, click>>

\* browser.close(), then the end of the with block: the finally block of
\* verify_chart.py, the last statement of run() in verification_script.py
CloseBrowser ==
    /\ pc = "close"
    /\ browser' = "CLOSED"
    /\ closeCalls' = closeCalls + 1
    /\ playwright' = "stopped"
    /\ pc' = "done"
    /\ UNCHANGED <<script, serverVars, probeVars, consoleListener,
                   pageErrorListener, navVars, logVars, pollVars, countVars,
                   click, captures, ret, exc>>

\* ---------------------------------------------------------------- teardown
\* KillServer as it would be without the except clause: a failed lookup
\* leaves verify() as ProcessLookupError, in place of its result
KillServerSurfacing ==
    /\ pc = "teardown"
    /\ stopCalls' = stopCalls + 1
    /\ \E found \in BOOLEAN :
         /\ (server # "EXITED") => found
         /\ IF found
              THEN /\ signalled' = TRUE
                   /\ pc' = "wait"
                   /\ UNCHANGED <<ret, exc>>
              ELSE /\ signalled' = signalled
                   /\ pc' = "done"
                   /\ ret' = NoResult
                   /\ exc' = "ProcessLookupError"
    /\ UNCHANGED <<script, server, probeVars, browser, sessionVars, navVars,
                   logVars, pollVars, countVars, click, captures>>

\* finally: try: os.killpg(os.getpgid(server.pid), 15) ... except: pass
\* The lookup finds a running server; of a server that has already exited it
\* may fail (ProcessLookupError), which the bare except swallows, skipping
\* server.wait().
KillServer ==
    /\ pc = "teardown"
    /\ stopCalls' = stopCalls + 1
    /\ \E found \in BOOLEAN :
         /\ (server # "EXITED") => found
         /\ IF found
              THEN /\ signalled' = TRUE
                   /\ pc' = "wait"
              ELSE /\ signalled' = signalled
                   /\ pc' = "done"
    /\ UNCHANGED <<script, server, probeVars, browser, sessionVars, navVars,
                   logVars, pollVars, countVars, click, captures, ret, exc>>

\* WaitServer as it would be without server.wait(): the script does not wait
\* for the server to exit
WaitServerNoBlock ==
    /\ pc = "wait"
    /\ pc' = "done"
    /\ UNCHANGED <<script, serverVars, probeVars, browser, sessionVars, navVars,
                   logVars, pollVars, countVars, click, captures, ret, exc>>

\* server.wait(): returns once the server process has exited, and reaps it
WaitServer ==
    /\ pc = "wait"
    /\ server = "EXITED"
    /\ server' = "TERMINATED"
    /\ pc' = "done"
    /\ UNCHANGED <<script, signalled, stopCalls, probeVars, browser, sessionVars,
                   navVars, logVars, pollVars, countVars, click, captures, ret, exc>>

Next ==
    \/ StartServer
    \/ ServerListen
    \/ ServerExit
    \/ ProbeConnect
    \/ ProbeRetry
    \/ ReadStderr
    \/ LaunchBrowser
    \/ Subscribe
    \/ Goto
    \/ NavigationReturns
    \/ PageConsole
    \/ PollInitial
    \/ Settle
    \/ CountInitial
    \/ ClickInvoke
    \/ ClickReturns
    \/ WaitPost
    \/ CountTotal
    \/ ScreenshotVCO
    \/ WaitLoad
    \/ ScreenshotTS
    \/ WaitSelector
    \/ WaitSelector2
    \/ Sleep
    \/ ScreenshotVC
    \/ ErrorScreenshot
    \/ MakeDirs
    \/ ScreenshotVS
    \/ CloseBrowser
    \/ KillServer
    \/ WaitServer

Spec == Init /\ [][Next]_vars

\* the script's own steps, as opposed to the server's and the page's
Harness ==
    \/ StartServer
    \/ ProbeConnect
    \/ ProbeRetry
    \/ ReadStderr
    \/ LaunchBrowser
    \/ Subscribe
    \/ Goto
    \/ NavigationReturns
    \/ PollInitial
    \/ Settle
    \/ CountInitial
    \/ ClickInvoke
    \/ ClickReturns
    \/ WaitPost
    \/ CountTotal
    \/ ScreenshotVCO
    \/ WaitLoad
    \/ ScreenshotTS
    \/ WaitSelector
    \/ WaitSelector2
    \/ Sleep
    \/ ScreenshotVC
    \/ ErrorScreenshot
    \/ MakeDirs
    \/ ScreenshotVS
    \/ CloseBrowser
    \/ KillServer
    \/ WaitServer

\* a server that was sent signal 15 exits
ServerExitOnSignal == signalled /\ ServerExit

\* The script runs whenever it has a step to take, and a signalled server
\* exits; nothing makes the server listen, or exit, before it is signalled.
LiveSpec ==
    /\ Init
    /\ [][Next]_vars
    /\ WF_vars(Harness)
    /\ WF_vars(ServerExitOnSignal)

\* The exit status of the script's process.  No __main__ block calls
\* sys.exit or inspects what its function returned: the status is 0 unless
\* an exception left the script uncaught, and then 1.
ExitStatus == IF exc = "none" THEN 0 ELSE 1

\* =================================================================== claims
\* the run of a script that manages the server has returned or raised
ManagedDone == pc = "done" /\ script \in Managed

\* the script ended the way it ends when nothing goes wrong
Succeeded ==
    /\ exc = "none"
    /\ CASE script = VCO -> ret.kind = "dict"
         [] script = TS -> ret.kind = "path"
         [] script = VC -> ret = [kind |-> "print", value |-> "Verification successful"]
         [] OTHER -> closeCalls = 1

\* the script's main screenshot was attempted and failed
MainCaptureFailed ==
    /\ Len(captures) >= 1
    /\ captures[1].path = ScreenshotPath(script)
    /\ ~captures[1].ok

\* C1 as stated: whenever verify() has returned or raised after starting the
\* server, the server's process group has been signalled and the server has
\* been waited for (TERMINATED).
C1_SignalledAndWaitedOnEveryExit ==
    ManagedDone => (signalled /\ server = "TERMINATED")

\* C1 amended: whenever verify() has returned or raised after starting the
\* server, the finally block has run once, and either the group was signalled
\* and the server waited for (TERMINATED), or the server had already exited
\* and its lookup failed, in which case nothing was signalled or waited for.
C1_StoppedOnEveryExit ==
    ManagedDone =>
        /\ stopCalls = 1
        /\ \/ signalled /\ server = "TERMINATED"
           \/ ~signalled /\ server = "EXITED"

\* C1 witness: verify() raised from the capture step and the server was
\* signalled and waited for.
C1_Witness ==
    /\ ManagedDone
    /\ exc = "screenshot failed"
    /\ signalled
    /\ server = "TERMINATED"

C3_ExhaustedProbeFailsRun ==
    (pc = "done" /\ probe = "TIMED_OUT") =>
        /\ exc = "Server failed to start"
        /\ browser = "NONE"
        /\ ~navIssued
        /\ server \in {"EXITED", "TERMINATED"}

\* C4: a run whose click was followed by no new creation marker
\* (total_creations = initial_creations) does not end the way a passing run
\* ends, with the counts dictionary returned.
C4_NoNewMarkerIsNotAPass ==
    (pc = "done" /\ script = VCO /\ click = "ok" /\ totalLen >= 0
        /\ total_creations = initial_creations)
    => ret.kind # "dict"

\* C5: a run whose initial poll never saw the marker and whose baseline
\* count is zero ends as a failure, with a screenshot capture attempted.
C5_MissingMarkerFailsWithScreenshot ==
    (pc = "done" /\ script = VCO /\ baselineLen >= 0 /\ ~pollHit
        /\ initial_creations = 0)
    => (~Succeeded /\ Len(captures) >= 1)

\* C6: a failed capture does not change the outcome: a run of
\* verify_chart_optimization or verify_chart that reached its main
\* screenshot, which only a run with no earlier failure does, still ends as
\* a success when that capture fails.
C6_CaptureFailureKeepsOutcome ==
    (pc = "done" /\ script \in {VCO, VC} /\ MainCaptureFailed) => Succeeded

\* C7: in the script that observes markers, once the navigation has been
\* issued both listeners are installed, and no console message of the page
\* went unheard.
C7_SubscribedBeforeNavigation ==
    (script = VCO /\ navIssued) =>
        (consoleListener /\ pageErrorListener /\ ~missed)

\* C7 witness: the navigation was issued and a console message of the page
\* reached the log.
C7_Witness ==
    /\ script = VCO
    /\ navIssued
    /\ Len(logs) >= 1

\* the end-to-end scenario of C8: probe and navigation succeeded, exactly one
\* creation marker was in the log at the baseline count, the click returned,
\* and between the baseline count and the total count exactly one creation
\* marker and at least one update marker arrived; the capture worked
C8_Scenario ==
    /\ script = VCO
    /\ probe = "READY"
    /\ navOk
    /\ baselineLen >= 0
    /\ Count(SubSeq(logs, 1, baselineLen), CHART_CREATED) = 1
    /\ click = "ok"
    /\ totalLen >= 0
    /\ Count(SubSeq(logs, baselineLen + 1, totalLen), CHART_CREATED) = 1
    /\ Count(SubSeq(logs, baselineLen + 1, totalLen), DATA_UPDATED) >= 1
    /\ ~MainCaptureFailed

\* C8: in that scenario the final result has initial = 1, total = 2,
\* updates >= 1 and success = true.
C8_EndToEndResult ==
    (pc = "done" /\ C8_Scenario) =>
        /\ ret.kind = "dict"
        /\ ret.value.initial = 1
        /\ ret.value.total = 2
        /\ ret.value.updates >= 1
        /\ "success" \in DOMAIN ret.value
        /\ ret.value["success"] = TRUE

\* C9: every run terminates.
C9_EveryRunTerminates == <>(pc = "done")

\* C10: a run of verify_chart_optimization that ended after a navigation
\* failure or a click failure attempted a screenshot capture before it ended.
C10_CaptureBeforeAbort ==
    (pc = "done" /\ script = VCO
        /\ ((navIssued /\ ~navOk) \/ click = "failed"))
    => Len(captures) >= 1
\* C11: teardown never alters the outcome: no step of the finally block,
\* whether the process-group lookup succeeds or fails, changes what verify()
\* returns or the exception it raises.
C11_TeardownKeepsOutcome ==
    [][(pc \in {"teardown", "wait"}) => (ret' = ret /\ exc' = exc)]_vars

\* C11 witness: the server had exited, the lookup in the finally block
\* failed, and verify() still returned its counts dictionary.
C11_Witness ==
    /\ ManagedDone
    /\ stopCalls = 1
    /\ ~signalled
    /\ ret.kind = "dict"
    /\ exc = "none"
C13_ExitStatusReflectsOutcome ==
    (pc = "done" /\ script \in {VCO, VC}) => ((ExitStatus = 0) <=> Succeeded)
\* C14: a run whose initial poll loop ran all its iterations without seeing
\* the marker never performs the click, and fails.
C14_ClickOnlyAfterPollHit ==
    (script = VCO /\ baselineLen >= 0 /\ ~pollHit) =>
        /\ click = "none"
        /\ (pc = "done") => ~Succeeded
\* the console messages that arrived after the click was invoked and before
\* the total counts were taken (the log cannot grow between the baseline
\* count and the click call: the script makes no Playwright call there)
PostClickLogs == SubSeq(logs, baselineLen + 1, totalLen)

\* C15: a result that reports updates >= 1 had an update marker appended to
\* the log after the click was invoked, and a result that reports
\* total > initial had a creation marker appended after it.
C15_UpdatesProvePostClickActivity ==
    (script = VCO /\ ret.kind = "dict") =>
        /\ (ret.value.updates >= 1) => Count(PostClickLogs, DATA_UPDATED) >= 1
        /\ (ret.value.total > ret.value.initial) =>
               Count(PostClickLogs, CHART_CREATED) >= 1
\* a is an initial part of b
IsPrefix(a, b) == Len(a) <= Len(b) /\ SubSeq(b, 1, Len(a)) = a

\* C16: the log is append-only: every step leaves it unchanged or adds one
\* entry at its end; each count equals the count over exactly the entries
\* that were in the log when it was taken, which are still its first
\* entries; and the total creation count is at least the initial one.
C16_LogAppendOnly ==
    /\ [][IsPrefix(logs, logs') /\ Len(logs') <= Len(logs) + 1]_vars
    /\ [](baselineLen >= 0 =>
             initial_creations = Count(SubSeq(logs, 1, baselineLen), CHART_CREATED))
    /\ [](totalLen >= 0 =>
             /\ baselineLen <= totalLen
             /\ total_creations = Count(SubSeq(logs, 1, totalLen), CHART_CREATED)
             /\ data_updates = Count(SubSeq(logs, 1, totalLen), DATA_UPDATED)
             /\ total_creations >= initial_creations)

\* C16 witness: the same text was logged twice, once before the baseline
\* count and once after it, both entries are kept, and the total count is
\* above the initial one.
C16_Witness ==
    /\ script = VCO
    /\ totalLen >= 2
    /\ baselineLen = 1
    /\ logs[1] = CHART_CREATED
    /\ logs[2] = CHART_CREATED
    /\ total_creations > initial_creations
\* a run of verify_chart_optimization has failed: its probe used all its
\* attempts, its navigation raised, its baseline count was zero, or its
\* click raised
C17_Failed ==
    /\ script = VCO
    /\ \/ probe = "TIMED_OUT"
       \/ exc = "navigation failed"
       \/ baselineLen >= 0 /\ initial_creations = 0
       \/ click = "failed"

\* C17: once a run has failed it stays failed: every later step leaves the
\* navigation, the poll, the counts, the click, the captures and the log as
\* they are, the script is only at the stderr read of the exhausted probe or
\* in teardown, and the counts dictionary is never returned.
C17_FailedIsAbsorbing ==
    [][C17_Failed =>
         /\ C17_Failed'
         /\ UNCHANGED <<navVars, pollVars, countVars, click, captures, logs>>
         /\ pc' \in {"read_stderr", "teardown", "wait", "done"}
         /\ ret'.kind # "dict"]_vars

\* C17 witness: the click raised, verify() returned False and the teardown
\* has run.
C17_Witness ==
    /\ script = VCO
    /\ click = "failed"
    /\ pc = "done"
    /\ stopCalls = 1
    /\ ret.kind = "False"
\* C18: whenever the initial polling loop stopped early on a log entry that
\* matches the marker, the baseline count taken afterwards is at least 1.
C18_PollHitImpliesBaseline ==
    (script = VCO /\ pollHit /\ baselineLen >= 0) => initial_creations >= 1

\* C19: verify() returns the counts dictionary only when the probe connected,
\* the navigation succeeded, the baseline count was at least 1, the click
\* returned without error and the screenshot was written; every other
\* finished run of verify() returned False or raised.
C19_CountsOnlyAfterEveryStage ==
    /\ ret.kind = "dict" =>
          /\ script = VCO
          /\ probe = "READY"
          /\ navIssued /\ navOk
          /\ initial_creations >= 1
          /\ click = "ok"
          /\ captures = <<[path |-> ScreenshotPath(VCO), ok |-> TRUE]>>
          /\ exc = "none"
          /\ ret.value = Result(initial_creations, total_creations, data_updates)
    /\ (pc = "done" /\ script = VCO /\ ret.kind # "dict") =>
          (ret.kind = "False" \/ exc # "none")

\* C19 witness: verify() has returned the counts dictionary and finished.
C19_Witness ==
    /\ script = VCO
    /\ pc = "done"
    /\ ret.kind = "dict"
    /\ ret.value.initial >= 1
====
